---- MODULE Spec2Model ----
(***************************************************************************)
(* A model of the "uncover" Obsidian plugin: the Note Locator              *)
(* (getNotesWithTag), the Relationship Synthesizer (generateContent) and   *)
(* the editor command that chains them, in the three variants of the       *)
(* source:                                                                 *)
(*   "main"     src/main.ts            (.env credential, awaited scan)     *)
(*   "settings" src/unnamed/part_000   (credential from the settings form) *)
(*   "legacy"   src/unnamed/part_001   (forEach + then, no guards)         *)
(* Strings that the code inspects (paths, note contents, the tag, the      *)
(* prompt) are sequences of one-character strings; strings that the code   *)
(* only passes around (sentinels, the model's answer, the key) are TLA+    *)
(* strings.                                                                *)
(***************************************************************************)
EXTENDS Integers, Sequences, FiniteSets, TLC

\* ------------------------------------------------------------------ bounds
MaxFiles == 3   \* longest store enumeration considered
MaxPaths == 2   \* longest path list handed directly to generateContent
MaxEdits == 1   \* changes the environment makes to the store or the key

\* ------------------------------------------------------- string primitives
\* String.prototype.startsWith
StartsWith(s, p) ==
    /\ Len(p) <= Len(s)
    /\ SubSeq(s, 1, Len(p)) = p

\* String.prototype.includes
Includes(s, t) ==
    \E i \in 0..(Len(s) - Len(t)) : SubSeq(s, i + 1, i + Len(t)) = t

\* String.prototype.lastIndexOf (0-based, -1 when absent)
LastIndexOf(s, ch) ==
    LET hits == {i \in 1..Len(s) : s[i] = ch}
    IN  IF hits = {} THEN -1
        ELSE (CHOOSE i \in hits : \A j \in hits : j <= i) - 1

\* String.prototype.substring(0, e): a negative end counts as 0
Substring0(s, e) ==
    LET hi == IF e < 0 THEN 0 ELSE IF e > Len(s) THEN Len(s) ELSE e
    IN  SubSeq(s, 1, hi)

\* Array.prototype.join with a one-character separator
RECURSIVE Join(_, _)
Join(parts, sep) ==
    IF Len(parts) = 0 THEN <<>>
    ELSE IF Len(parts) = 1 THEN parts[1]
    ELSE parts[1] \o <<sep>> \o Join(Tail(parts), sep)

\* String.prototype.trim on the key values of the settings form
Trim(v) == IF v = " " THEN "" ELSE v

Range(f) == {f[i] : i \in DOMAIN f}

\* --------------------------------------------------------------- literals
AmpTag  == <<"&", "u", "n", "c", "o", "v", "e", "r">>
HashTag == <<"#", "u", "n", "c", "o", "v", "e", "r">>

\* the tag literal the command passes to getNotesWithTag
CommandTag(v) == IF v = "legacy" THEN HashTag ELSE AmpTag

MsgNoPath == "Could not determine the current file path."
MsgNoNotes(v) ==
    IF v = "legacy" THEN "No related notes with the #uncover tag found."
    ELSE "No related notes with the &uncover tag found."
MsgNoKey(v) ==
    IF v = "settings"
    THEN "API Key is not set. Please configure it in the plugin settings."
    ELSE "API Key is not set. Please configure it in the .env file."
MsgNoContent == "Error generating content. No response content."
MsgError     == "Error generating content. Please check the console for details."
Heading      == "\n## Relationships Uncovered:\n"
LeadIn       == "Uncover relationships between the following notes:\n"
NL           == "\n"

Variants == {"main", "settings", "legacy"}

\* ---------------------------------------------------- the environment's data
PA == <<"/", "p", "/", "a">>
PB == <<"/", "p", "/", "b">>
OC == <<"/", "o", "/", "c">>
RN == <<"n">>
PQ == <<"/", "p", "q", "/", "d">>

\* the store enumerations (vault.getFiles()) the model starts from
StoreShapes ==
    { <<>>, <<RN, PA>>, <<PA, OC, PB>>, <<PB, PQ, OC, PA>> }
Stores == {s \in StoreShapes : Len(s) <= MaxFiles}

Contents ==
    { <<"a">> \o AmpTag, HashTag \o <<"b">> }

Keys == {"", "sk-1"}
FormValues == {"", " ", "sk-2"}

\* what the completion provider may do with a request
Responses == {"throws", "nochoices", "nullcontent", "emptycontent", "answer"}
Answer == "A relates to B via X"

\* values a call of generateContent can end with
NoRet     == [kind |-> "none",   val |-> ""]
Str(s)    == [kind |-> "string", val |-> s]
NullVal   == [kind |-> "null",   val |-> ""]
Thrown    == [kind |-> "throw",  val |-> ""]

\* a slot of the array Promise.all resolves to, and the outcome of a scan read
Pending     == [st |-> "pending", c |-> <<>>]
Done(c)     == [st |-> "done",    c |-> c]
NotRead     == [st |-> "none",    c |-> <<>>]
ReadOk(c)   == [st |-> "ok",      c |-> c]
ReadFailed  == [st |-> "fail",    c |-> <<>>]

\* ------------------------------------------------------------------- state
VARIABLES
    variant,      \* which of the three source variants runs
    files,        \* vault.getFiles(): the store's enumeration of paths
    content,      \* the text of each note
    apiKey,       \* OPENAI_API_KEY, or settings.apiKey in the settings variant
    edits,        \* changes made by the environment so far
    mode,         \* entry point: "command", "locate" or "synth"
    pc,           \* position of the invocation
    currentFilePath, \* view.file?.path of the command (<<>>: none)
    folderPath,   \* getNotesWithTag's folderPath argument
    tag,          \* getNotesWithTag's tag argument
    locFiles,     \* the files array getNotesWithTag iterates over
    locIdx,       \* index of the file the for-of loop is at
    locPending,   \* indices whose vault.read has not settled
    locSaw,       \* outcome of the read of each index
    locReads,     \* number of reads issued for each index
    notes,        \* the notes array of getNotesWithTag
    handed,       \* getNotesWithTag has returned notes to its caller
    handedNotes,  \* notes as it was when it was returned
    handedOpen,   \* the reads still unsettled when notes was returned
    synPaths,     \* generateContent's argument
    keyAtEntry,   \* the key when generateContent was entered
    synAbsent,    \* positions whose path did not resolve to a TFile
    slots,        \* notesContent, by position
    synPending,   \* positions whose read has not settled
    synLog,       \* what each position's read delivered
    synOrder,     \* positions in the order their reads completed
    prompt,       \* the content of the single user message
    keyUsed,      \* the key the client was built with
    requests,     \* the requests passed to chat.completions.create
    providerCalls,\* chat.completions.create calls of this invocation
    lastResp,     \* what the provider did with the request
    ret,          \* what generateContent returned
    inserted,     \* texts passed to editor.replaceSelection
    cmdThrew      \* the editorCallback promise rejected

envVars == <<variant, files, content, apiKey, edits>>
locVars == <<folderPath, tag, locFiles, locIdx, locPending, locSaw, locReads,
             notes, handed, handedNotes, handedOpen>>
synVars == <<synPaths, keyAtEntry, synAbsent, slots, synPending, synLog,
             synOrder, prompt, keyUsed, requests, providerCalls, lastResp, ret>>
cmdVars == <<currentFilePath, inserted, cmdThrew>>
vars == <<envVars, mode, pc, locVars, synVars, cmdVars>>

Exists(p) == p \in Range(files)

Init ==
    /\ variant \in Variants
    /\ files \in Stores
    /\ content \in [Range(files) -> Contents]
    /\ apiKey \in Keys
    /\ edits = 0
    /\ mode = "none"
    /\ pc = "idle"
    /\ currentFilePath = <<>>
    /\ folderPath = <<>>
    /\ tag = <<>>
    /\ locFiles = <<>>
    /\ locIdx = 1
    /\ locPending = {}
    /\ locSaw = <<>>
    /\ locReads = <<>>
    /\ notes = <<>>
    /\ handed = FALSE
    /\ handedNotes = <<>>
    /\ handedOpen = {}
    /\ synPaths = <<>>
    /\ keyAtEntry = ""
    /\ synAbsent = {}
    /\ requests = <<>>
    /\ slots = <<>>
    /\ synPending = {}
    /\ synLog = <<>>
    /\ synOrder = <<>>
    /\ prompt = <<>>
    /\ keyUsed = ""
    /\ providerCalls = 0
    /\ lastResp = "none"
    /\ ret = NoRet
    /\ inserted = <<>>
    /\ cmdThrew = FALSE

\* ------------------------------------------------- getNotesWithTag (Locator)
\* (mutation) the scan without its path filter
InScope_Unfiltered(path, scope) == TRUE

\* the path filter of the scan: file.path.startsWith(folderPath)
InScope(path, scope) == StartsWith(path, scope)

\* the content test of the scan: content.includes(tag)
Matches(c, t) == Includes(c, t)

\* notes after the read of `path` delivered c
Collect(ns, path, c, t) == IF Matches(c, t) THEN Append(ns, path) ELSE ns

\* (mutation) a failed read ends the loop
AfterReadError_Abort(i, n) == n + 1

\* the index the awaited scan goes on with after the read of index i of n
\* failed: the catch block logs and the loop takes the next file
AfterReadError(i, n) == i + 1

\* the position getNotesWithTag's caller resumes at
AfterLocate(m) == IF m = "command" THEN "located" ELSE "returned"

\* entry of the awaited scan (main, settings): notes = [], files = getFiles()
EnterScan(t, scope) ==
    /\ tag' = t
    /\ folderPath' = scope
    /\ locFiles' = files
    /\ locIdx' = 1
    /\ locPending' = {}
    /\ locSaw' = [i \in 1..Len(files) |-> NotRead]
    /\ locReads' = [i \in 1..Len(files) |-> 0]
    /\ notes' = <<>>
    /\ handed' = FALSE
    /\ handedNotes' = <<>>
    /\ handedOpen' = {}

\* the whole of the legacy getNotesWithTag, which is synchronous: forEach
\* issues a read for every file in scope, registers a then-callback on it and
\* notes is returned as it is
ScanLegacy(t, scope) ==
    LET started == {i \in 1..Len(files) : InScope(files[i], scope)}
    IN  /\ tag' = t
        /\ folderPath' = scope
        /\ locFiles' = files
        /\ locIdx' = Len(files) + 1
        /\ locPending' = started
        /\ locSaw' = [i \in 1..Len(files) |-> NotRead]
        /\ locReads' = [i \in 1..Len(files) |-> IF i \in started THEN 1 ELSE 0]
        /\ notes' = <<>>
        /\ handed' = TRUE
        /\ handedNotes' = <<>>
        /\ handedOpen' = started

\* one turn of the for-of loop up to its await: a file out of scope is passed
\* over, a file in scope has its read issued
LocStep ==
    /\ pc = "locating"
    /\ locPending = {}
    /\ locIdx <= Len(locFiles)
    /\ IF InScope(locFiles[locIdx], folderPath)
       THEN /\ locPending' = {locIdx}
            /\ locReads' = [locReads EXCEPT ![locIdx] = @ + 1]
            /\ UNCHANGED locIdx
       ELSE /\ locIdx' = locIdx + 1
            /\ UNCHANGED <<locPending, locReads>>
    /\ UNCHANGED <<envVars, mode, pc, folderPath, tag, locFiles, locSaw, notes,
                   handed, handedNotes, handedOpen, synVars, cmdVars>>

\* the awaited read settles: with the note's text, or with an error that the
\* catch block logs
LocReadDone ==
    /\ pc = "locating"
    /\ locPending = {locIdx}
    /\ \E ok \in BOOLEAN :
        LET path == locFiles[locIdx]
        IN  IF ok /\ Exists(path)
            THEN /\ locSaw' = [locSaw EXCEPT ![locIdx] = ReadOk(content[path])]
                 /\ notes' = Collect(notes, path, content[path], tag)
                 /\ locIdx' = locIdx + 1
            ELSE /\ locSaw' = [locSaw EXCEPT ![locIdx] = ReadFailed]
                 /\ notes' = notes
                 /\ locIdx' = AfterReadError(locIdx, Len(locFiles))
    /\ locPending' = {}
    /\ UNCHANGED <<envVars, mode, pc, folderPath, tag, locFiles, locReads, handed,
                   handedNotes, handedOpen, synVars, cmdVars>>

\* the loop is over: return notes
LocReturn ==
    /\ pc = "locating"
    /\ locPending = {}
    /\ locIdx > Len(locFiles)
    /\ handed' = TRUE
    /\ handedNotes' = notes
    /\ handedOpen' = locPending
    /\ pc' = AfterLocate(mode)
    /\ UNCHANGED <<envVars, mode, folderPath, tag, locFiles, locIdx, locPending,
                   locSaw, locReads, notes, synVars, cmdVars>>

\* legacy: a read issued by forEach settles, whenever it does; a fulfilled
\* one runs the then-callback, a rejected one has no handler
ThenCallback ==
    /\ variant = "legacy"
    /\ \E i \in locPending, ok \in BOOLEAN :
        LET path == locFiles[i]
        IN  /\ locPending' = locPending \ {i}
            /\ IF ok /\ Exists(path)
               THEN /\ locSaw' = [locSaw EXCEPT ![i] = ReadOk(content[path])]
                    /\ notes' = Collect(notes, path, content[path], tag)
               ELSE /\ locSaw' = [locSaw EXCEPT ![i] = ReadFailed]
                    /\ notes' = notes
    /\ UNCHANGED <<envVars, mode, pc, folderPath, tag, locFiles, locIdx,
                   locReads, handed, handedNotes, handedOpen, synVars, cmdVars>>

\* --------------------------------------------- generateContent (Synthesizer)
\* (mutation) no credential check
KeyMissing_Never(k) == FALSE

\* the credential check: !OPENAI_API_KEY, !this.settings.apiKey
KeyMissing(k) == k = ""

\* vault.getAbstractFileByPath(p) yields a TFile
Resolves(p) == Exists(p)

\* (mutation) results pushed as the reads complete: the value lands in the
\* first position still empty
SlotWrite_CompletionOrder(sl, i, c) ==
    LET k == CHOOSE k \in 1..Len(sl) :
                /\ sl[k].st = "pending"
                /\ \A j \in 1..(k - 1) : sl[j].st # "pending"
    IN  [sl EXCEPT ![k] = Done(c)]

\* Promise.all stores the value of the i-th promise at position i
SlotWrite(sl, i, c) == [sl EXCEPT ![i] = Done(c)]

\* the argument of chat.completions.create
ModelId == "gpt-4o-mini"
Request(p) == [model |-> ModelId, messages |-> <<[role |-> "user", content |-> p]>>]

\* the template literal of the prompt
Assemble(sl) == <<LeadIn>> \o Join([i \in 1..Len(sl) |-> sl[i].c], NL)

\* (mutation) the request outside any try block
ExtractGuarded_NoCatch(r) ==
    CASE r = "throws"       -> Thrown
      [] r = "nochoices"    -> Str(MsgNoContent)
      [] r = "nullcontent"  -> Str(MsgNoContent)
      [] r = "emptycontent" -> Str(MsgNoContent)
      [] r = "answer"       -> Str(Answer)

\* main, settings: the try block around the request, with the optional
\* chaining and the !messageContent test, and the catch block
ExtractGuarded(r) ==
    CASE r = "throws"       -> Str(MsgError)
      [] r = "nochoices"    -> Str(MsgNoContent)
      [] r = "nullcontent"  -> Str(MsgNoContent)
      [] r = "emptycontent" -> Str(MsgNoContent)
      [] r = "answer"       -> Str(Answer)

\* legacy: response.choices[0].message.content inside the try block; with no
\* choices the property access throws a TypeError, which the catch block takes
ExtractLegacy(r) ==
    CASE r = "throws"       -> Str(MsgError)
      [] r = "nochoices"    -> Str(MsgError)
      [] r = "nullcontent"  -> NullVal
      [] r = "emptycontent" -> Str("")
      [] r = "answer"       -> Str(Answer)

Extract(v, r) == IF v = "legacy" THEN ExtractLegacy(r) ELSE ExtractGuarded(r)

\* the callbacks of notes.map run synchronously up to their first await: each
\* path is resolved and, when it resolves, its read is issued. In main and
\* settings an unresolved path yields ''; in legacy read(null) throws.
MapSlots(paths) ==
    [i \in 1..Len(paths) |->
        IF Resolves(paths[i]) THEN Pending ELSE Done(<<>>)]

MapThrows(v, paths) ==
    v = "legacy" /\ \E i \in 1..Len(paths) : ~Resolves(paths[i])

\* entry of generateContent up to its first await
EnterSynth(paths) ==
    /\ synPaths' = paths
    /\ keyAtEntry' = apiKey
    /\ requests' = <<>>
    /\ synAbsent' = IF KeyMissing(apiKey) THEN {}
                    ELSE {i \in 1..Len(paths) : ~Resolves(paths[i])}
    /\ synLog' = [i \in 1..Len(paths) |-> NotRead]
    /\ synOrder' = <<>>
    /\ prompt' = <<>>
    /\ keyUsed' = ""
    /\ providerCalls' = 0
    /\ lastResp' = "none"
    /\ IF KeyMissing(apiKey)
       THEN /\ ret' = Str(MsgNoKey(variant))
            /\ slots' = <<>>
            /\ synPending' = {}
            /\ pc' = "synth_returned"
       ELSE IF MapThrows(variant, paths)
       THEN /\ ret' = Thrown
            /\ slots' = <<>>
            /\ synPending' = {}
            /\ pc' = "synth_returned"
       ELSE /\ ret' = NoRet
            /\ slots' = MapSlots(paths)
            /\ synPending' = {i \in 1..Len(paths) : Resolves(paths[i])}
            /\ pc' = "reading"

\* (mutation) the synthesis pass reuses the text the scan read for the path
RereadContent_FromScan(p) ==
    LET seen == {i \in 1..Len(locFiles) : locFiles[i] = p /\ locSaw[i].st = "ok"}
    IN  IF seen = {} THEN content[p] ELSE locSaw[CHOOSE i \in seen : TRUE].c

\* what the read of the synthesis pass fulfils with: the note's text in the
\* store at that moment
RereadContent(p) == content[p]

\* one of the concurrently issued reads settles. A rejected read rejects
\* Promise.all, and with it the promise generateContent returned: the await
\* is outside the try block.
SynReadDone ==
    /\ pc = "reading"
    /\ \E i \in synPending, ok \in BOOLEAN :
        /\ synPending' = synPending \ {i}
        /\ IF ok /\ Exists(synPaths[i])
           THEN /\ slots' = SlotWrite(slots, i, RereadContent(synPaths[i]))
                /\ synLog' = [synLog EXCEPT ![i] = ReadOk(content[synPaths[i]])]
                /\ synOrder' = Append(synOrder, i)
                /\ UNCHANGED <<pc, ret>>
           ELSE /\ synLog' = [synLog EXCEPT ![i] = ReadFailed]
                /\ ret' = Thrown
                /\ pc' = "synth_returned"
                /\ UNCHANGED <<slots, synOrder>>
    /\ UNCHANGED <<envVars, mode, locVars, synPaths, keyAtEntry, synAbsent,
                   prompt, keyUsed, requests, providerCalls, lastResp, cmdVars>>

\* Promise.all resolved: assemble the prompt, build the client with the key
\* as it is now, send the one request
SynRequest ==
    /\ pc = "reading"
    /\ synPending = {}
    /\ prompt' = Assemble(slots)
    /\ keyUsed' = apiKey
    /\ requests' = Append(requests, Request(Assemble(slots)))
    /\ providerCalls' = providerCalls + 1
    /\ pc' = "calling"
    /\ UNCHANGED <<envVars, mode, locVars, synPaths, keyAtEntry, synAbsent, slots,
                   synPending, synLog, synOrder, lastResp, ret, cmdVars>>

\* the request settles
ProviderRespond ==
    /\ pc = "calling"
    /\ \E r \in Responses :
        /\ lastResp' = r
        /\ ret' = Extract(variant, r)
    /\ pc' = "synth_returned"
    /\ UNCHANGED <<envVars, mode, locVars, synPaths, keyAtEntry, synAbsent,
                   slots, synPending, synLog, synOrder, prompt, keyUsed,
                   requests, providerCalls, cmdVars>>

\* ------------------------------------------------------------ entry points
\* a path no store holds
GP == <<"/", "p", "/", "z">>

Tags == {AmpTag, HashTag}
Scopes == { <<>>, <<"/", "p">>, <<"/", "o">> }

\* the path lists generateContent is called with directly
SynInputs ==
    LET pool == Range(files) \cup {GP}
    IN  {s \in UNION {[1..n -> pool] : n \in 0..MaxPaths} :
            \A i, j \in DOMAIN s : s[i] = s[j] => i = j}

\* (mutation) the folder cut at the first '/' instead of the last
FolderOf_FirstSlash(path) ==
    LET hits == {i \in 1..Len(path) : path[i] = "/"}
    IN  IF hits = {} THEN <<>>
        ELSE SubSeq(path, 1, (CHOOSE i \in hits : \A j \in hits : i <= j) - 1)

\* the folder of the triggering note: everything before its last '/'
FolderOf(path) == Substring0(path, LastIndexOf(path, "/"))

\* the template literal the command inserts
Interpolate(r) == IF r.kind = "null" THEN "null" ELSE r.val
Report(r) == <<Heading, Interpolate(r)>>

\* the editor command is invoked on the note t (<<>>: the view has no file).
\* Everything up to the first await runs in this step; the legacy variant has
\* no await before the test of relatedNotes.length.
CmdStart ==
    /\ pc = "idle"
    /\ mode' = "command"
    /\ \E t \in {<<>>} \cup Range(files) :
        /\ currentFilePath' = t
        /\ IF variant = "settings" /\ KeyMissing(apiKey)
           THEN /\ inserted' = Append(inserted, <<MsgNoKey(variant)>>)
                /\ pc' = "done"
                /\ UNCHANGED <<locVars, cmdThrew>>
           ELSE IF t = <<>>
           THEN /\ IF variant = "legacy"
                   THEN cmdThrew' = TRUE /\ UNCHANGED inserted
                   ELSE inserted' = Append(inserted, <<MsgNoPath>>)
                        /\ UNCHANGED cmdThrew
                /\ pc' = "done"
                /\ UNCHANGED locVars
           ELSE IF variant = "legacy"
           THEN /\ ScanLegacy(CommandTag(variant), FolderOf(t))
                /\ IF Len(notes') = 0
                   THEN /\ inserted' = Append(inserted, <<MsgNoNotes(variant)>>)
                        /\ pc' = "done"
                   ELSE /\ inserted' = inserted
                        /\ pc' = "located"
                /\ UNCHANGED cmdThrew
           ELSE /\ EnterScan(CommandTag(variant), FolderOf(t))
                /\ pc' = "locating"
                /\ UNCHANGED <<inserted, cmdThrew>>
    /\ UNCHANGED <<envVars, synVars>>

\* the command resumes with relatedNotes
CmdAfterLocate ==
    /\ pc = "located"
    /\ IF Len(notes) = 0
       THEN /\ inserted' = Append(inserted, <<MsgNoNotes(variant)>>)
            /\ pc' = "done"
            /\ UNCHANGED synVars
       ELSE /\ EnterSynth(notes)
            /\ UNCHANGED inserted
    /\ UNCHANGED <<envVars, mode, locVars, currentFilePath, cmdThrew>>

\* (mutation) the command writes into the triggering note's file
CmdAfterSynth_WritesNote ==
    /\ pc = "synth_returned"
    /\ mode = "command"
    /\ content' = [p \in DOMAIN content |->
                    IF p = currentFilePath THEN <<"r">> ELSE content[p]]
    /\ inserted' = Append(inserted, Report(ret))
    /\ pc' = "done"
    /\ UNCHANGED <<variant, files, apiKey, edits, mode, locVars, synVars,
                   currentFilePath, cmdThrew>>

\* the command resumes with relationships, or its promise rejects
CmdAfterSynth ==
    /\ pc = "synth_returned"
    /\ mode = "command"
    /\ IF ret.kind = "throw"
       THEN cmdThrew' = TRUE /\ UNCHANGED inserted
       ELSE inserted' = Append(inserted, Report(ret)) /\ UNCHANGED cmdThrew
    /\ pc' = "done"
    /\ UNCHANGED <<envVars, mode, locVars, synVars, currentFilePath>>

\* getNotesWithTag called on its own
LocateCall ==
    /\ pc = "idle"
    /\ mode' = "locate"
    /\ \E t \in Tags, scope \in Scopes :
        IF variant = "legacy"
        THEN ScanLegacy(t, scope) /\ pc' = AfterLocate("locate")
        ELSE EnterScan(t, scope) /\ pc' = "locating"
    /\ UNCHANGED <<envVars, synVars, cmdVars>>

\* generateContent called on its own
SynthCall ==
    /\ pc = "idle"
    /\ mode' = "synth"
    /\ \E paths \in SynInputs : EnterSynth(paths)
    /\ UNCHANGED <<envVars, locVars, cmdVars>>

Finished ==
    \/ pc = "done"
    \/ pc = "returned"
    \/ pc = "synth_returned" /\ mode = "synth"

\* ---------------------------------------------------------- the environment
\* the environment acts while the invocation waits for I/O: a handler or a
\* change of the vault runs as a task of its own, never between a settled
\* promise and the continuation that awaits it
Running == locPending # {} \/ (pc = "reading" /\ synPending # {})

\* the user edits a note
EditNote ==
    /\ Running
    /\ edits < MaxEdits
    /\ \E p \in Range(files), c \in Contents :
        /\ c # content[p]
        /\ content' = [content EXCEPT ![p] = c]
    /\ edits' = edits + 1
    /\ UNCHANGED <<variant, files, apiKey, mode, pc, locVars, synVars,
                   cmdVars>>

\* the user deletes or moves a note
DeleteNote ==
    /\ Running
    /\ edits < MaxEdits
    /\ \E i \in 1..Len(files) :
        /\ files' = [j \in 1..(Len(files) - 1) |->
                        IF j < i THEN files[j] ELSE files[j + 1]]
        /\ content' = [p \in Range(files) \ {files[i]} |-> content[p]]
    /\ edits' = edits + 1
    /\ UNCHANGED <<variant, apiKey, mode, pc, locVars, synVars,
                   cmdVars>>

\* settings: the onChange handler of the key field
OnChange ==
    /\ variant = "settings"
    /\ Running
    /\ edits < MaxEdits
    /\ \E value \in FormValues :
        /\ Trim(value) # apiKey
        /\ apiKey' = Trim(value)
    /\ edits' = edits + 1
    /\ UNCHANGED <<variant, files, content, mode, pc, locVars, synVars,
                   cmdVars>>

\* the next invocation starts from nothing: every local of the previous one
\* is gone
NextInvocation ==
    /\ Finished
    /\ locPending = {}
    /\ mode' = "none"
    /\ pc' = "idle"
    /\ folderPath' = <<>>
    /\ tag' = <<>>
    /\ locFiles' = <<>>
    /\ locIdx' = 1
    /\ locPending' = {}
    /\ locSaw' = <<>>
    /\ locReads' = <<>>
    /\ notes' = <<>>
    /\ handed' = FALSE
    /\ handedNotes' = <<>>
    /\ handedOpen' = {}
    /\ synPaths' = <<>>
    /\ keyAtEntry' = ""
    /\ synAbsent' = {}
    /\ requests' = <<>>
    /\ currentFilePath' = <<>>
    /\ slots' = <<>>
    /\ synPending' = {}
    /\ synLog' = <<>>
    /\ synOrder' = <<>>
    /\ prompt' = <<>>
    /\ keyUsed' = ""
    /\ providerCalls' = 0
    /\ lastResp' = "none"
    /\ ret' = NoRet
    /\ inserted' = <<>>
    /\ cmdThrew' = FALSE
    /\ UNCHANGED <<variant, files, content, apiKey, edits>>

Next ==
    \/ CmdStart
    \/ LocStep
    \/ LocReadDone
    \/ LocReturn
    \/ ThenCallback
    \/ CmdAfterLocate
    \/ SynReadDone
    \/ SynRequest
    \/ ProviderRespond
    \/ CmdAfterSynth
    \/ LocateCall
    \/ SynthCall
    \/ EditNote
    \/ DeleteNote
    \/ OnChange
    \/ NextInvocation

Spec == Init /\ [][Next]_vars

\* ================================================================== claims
\* generateContent has been entered in this invocation
SynEntered == pc \in {"reading", "calling"} \/ ret.kind # "none"

\* generateContent has settled
SynSettled == ret.kind # "none"

\* the strings generateContent is specified to return
AllowedResults(v) == {Answer, MsgNoContent, MsgError, MsgNoKey(v)}

\* C1: generateContent always completes by returning a string, never by
\* throwing: whatever the path list, the store and the provider do, the value
\* is the model's answer, one of the two error sentinels or the
\* missing-credential sentinel.
C1_SynthReturnsAllowedString ==
    SynSettled => /\ ret.kind = "string"
                  /\ ret.val \in AllowedResults(variant)

\* C2: getNotesWithTag's caller never sees a partially populated result: when
\* notes is returned every read the scan started has settled, and no read
\* callback changes the returned array afterwards.
C2_NoPartialResult ==
    handed => /\ handedOpen = {}
              /\ notes = handedNotes

\* C3: every path in getNotesWithTag's result starts with the folder scope and
\* belongs to a note whose content contained the tag when the scan read it.
C3_LocateSound ==
    \A k \in 1..Len(notes) :
        /\ StartsWith(notes[k], folderPath)
        /\ \E i \in 1..Len(locFiles) :
            /\ locFiles[i] = notes[k]
            /\ locSaw[i].st = "ok"
            /\ Includes(locSaw[i].c, tag)

\* C3 witness: a scan returned a match while a tagged note outside the scope
\* was in the store
C3_Witness ==
    /\ handed
    /\ locPending = {}
    /\ Len(notes) >= 1
    /\ \E i \in 1..Len(locFiles) :
        /\ ~StartsWith(locFiles[i], folderPath)
        /\ Exists(locFiles[i])
        /\ Includes(content[locFiles[i]], tag)

\* C4: getNotesWithTag is complete: every note under the scope whose read
\* succeeded with content containing the tag is in the sequence the caller
\* received.
C4_LocateComplete ==
    handed =>
        \A i \in 1..Len(locFiles) :
            ( /\ StartsWith(locFiles[i], folderPath)
              /\ locSaw[i].st = "ok"
              /\ Includes(locSaw[i].c, tag) )
            => locFiles[i] \in Range(handedNotes)

\* C5: when the credential is absent at the call of generateContent, the
\* call returns the configuration-missing sentinel and the provider is not
\* invoked in that invocation.
C5_NoKeyNoRequest ==
    (SynEntered /\ keyAtEntry = "") =>
        /\ ret = Str(MsgNoKey(variant))
        /\ providerCalls = 0
        /\ keyUsed = ""
        /\ lastResp = "none"

\* C5 witness: the command ran to its end with no credential and inserted what
\* generateContent returned
C5_Witness ==
    /\ mode = "command"
    /\ pc = "done"
    /\ SynEntered
    /\ keyAtEntry = ""
    /\ inserted = <<Report(Str(MsgNoKey(variant)))>>

\* C6: editor.replaceSelection is invoked exactly once per command
\* invocation, whatever the outcome of the pipeline: never more than once,
\* and once when the command has ended.
C6_InsertExactlyOnce ==
    mode = "command" =>
        /\ Len(inserted) <= 1
        /\ pc = "done" => Len(inserted) = 1

\* C7: when the provider throws, generateContent returns the generic error
\* sentinel and nothing propagates to the caller.
C7_ProviderThrowIsSentinel ==
    lastResp = "throws" =>
        /\ ret = Str(MsgError)
        /\ ~cmdThrew

\* C7 witness: the provider threw inside a command, which inserted the
\* sentinel under the heading
C7_Witness ==
    /\ lastResp = "throws"
    /\ mode = "command"
    /\ pc = "done"
    /\ inserted = <<Report(Str(MsgError))>>

\* C8: a structurally valid response without content (no choices, null or
\* empty content of the first choice) makes generateContent return the
\* empty-response sentinel, which is not the generic sentinel and not null.
C8_EmptyResponseIsSentinel ==
    /\ MsgNoContent # MsgError
    /\ lastResp \in {"nochoices", "nullcontent", "emptycontent"} =>
            ret = Str(MsgNoContent)

\* the paths a scan has to report: in scope, read successfully, tag found
LocMatched ==
    {locFiles[i] : i \in {j \in 1..Len(locFiles) :
                            /\ StartsWith(locFiles[j], folderPath)
                            /\ locSaw[j].st = "ok"
                            /\ Includes(locSaw[j].c, tag)}}

\* C9: a read that fails during the scan is skipped and the scan goes on:
\* once the scan has returned and its reads have settled, every file in scope
\* was read exactly once (none retried, none left out after the failure), and
\* the result holds exactly the matching notes among the readable ones, as if
\* the unreadable notes were not in the store.
C9_ReadFailureSkipped ==
    /\ \A i \in 1..Len(locFiles) : locReads[i] <= 1
    /\ (handed /\ locPending = {}) =>
        /\ \A i \in 1..Len(locFiles) :
              StartsWith(locFiles[i], folderPath) =>
                  locReads[i] = 1 /\ locSaw[i].st \in {"ok", "fail"}
        /\ Range(notes) = LocMatched
        /\ Len(notes) = Cardinality(LocMatched)

\* C9 witness: a scan returned with a failed read followed by a note it
\* reported
C9_Witness ==
    /\ handed
    /\ locPending = {}
    /\ \E i, j \in 1..Len(locFiles) :
        /\ i < j
        /\ locSaw[i].st = "fail"
        /\ locSaw[j].st = "ok"
        /\ locFiles[j] \in Range(notes)

\* C10: the prompt holds the contents in the order of the path list, whatever
\* the order in which the reads complete: after the fixed lead-in, position i
\* of the newline-joined block is what the read for path i delivered ('' for
\* a path that did not resolve).
C10_PromptInInputOrder ==
    providerCalls >= 1 =>
        prompt = <<LeadIn>> \o
                 Join([i \in 1..Len(synPaths) |->
                         IF synLog[i].st = "ok" THEN synLog[i].c ELSE <<>>], NL)

\* C10 witness: the request was sent after the read of a later path completed
\* before the read of an earlier path with a different content
C10_Witness ==
    /\ pc = "calling"
    /\ \E a, b \in 1..Len(synOrder) :
        /\ a < b
        /\ synOrder[a] > synOrder[b]
        /\ synLog[synOrder[a]].c # synLog[synOrder[b]].c

\* C11: the command inserts the 'no related notes' message exactly when no
\* readable note under the triggering note's folder contains the tag: it is
\* inserted when the scan's match set is empty and never when the scan read a
\* note under the scope that contains the tag.
C11_NoNotesIffNoMatch ==
    (mode = "command" /\ pc = "done" /\ handed) =>
        ((inserted = <<<<MsgNoNotes(variant)>>>>) <=> (LocMatched = {}))

\* generateContent got past its credential check
PastKeyCheck == SynEntered /\ keyAtEntry # ""

\* C12: every generateContent call that passes the credential check issues
\* exactly one request to the provider, carrying exactly one message, of role
\* 'user'; no invocation issues more than one request (no retry).
C12_ExactlyOneRequest ==
    /\ Len(requests) <= 1
    /\ providerCalls = Len(requests)
    /\ \A k \in 1..Len(requests) :
        /\ Len(requests[k].messages) = 1
        /\ requests[k].messages[1].role = "user"
    /\ (PastKeyCheck /\ SynSettled) => Len(requests) = 1

\* the combined block the claims expect: position i holds what the read of
\* path i delivered, '' where the path did not resolve
ExpectedBlock ==
    Join([i \in 1..Len(synPaths) |->
            IF synLog[i].st = "ok" THEN synLog[i].c ELSE <<>>], NL)

\* no read of the synthesis batch has failed
NoSynReadFailed == \A i \in 1..Len(synLog) : synLog[i].st # "fail"

\* C13: a path that no longer resolves contributes '' in its own slot and the
\* batch goes on to the provider call with the other contents: the unresolved
\* path never makes the call fail.
C13_UnresolvedPathIsEmptySlot ==
    (PastKeyCheck /\ synAbsent # {} /\ NoSynReadFailed) =>
        /\ ret.kind # "throw"
        /\ \A i \in synAbsent : pc = "reading" => slots[i] = Done(<<>>)
        /\ SynSettled => /\ Len(requests) = 1
                         /\ prompt = <<LeadIn>> \o ExpectedBlock

\* the position of a path in the enumeration the scan went through
IndexIn(seq, x) == CHOOSE i \in 1..Len(seq) : seq[i] = x

\* C14: getNotesWithTag returns the matching paths in the store's enumeration
\* order, whatever the order in which the reads complete.
C14_EnumerationOrder ==
    \A a, b \in 1..Len(notes) :
        a < b => IndexIn(locFiles, notes[a]) < IndexIn(locFiles, notes[b])

\* C15: neither getNotesWithTag nor generateContent nor the command creates,
\* modifies or deletes a note: every step that changes the store's paths or
\* a note's text is a step of the environment, which leaves the invocation
\* where it is; the command's only write is the one insertion.
C15_CoreLeavesStoreAlone ==
    [][ (files' # files \/ content' # content) =>
            /\ edits' = edits + 1
            /\ UNCHANGED <<mode, pc, locVars, synVars, cmdVars>> ]_vars

\* C15 witness: a command went through scan, re-read and request and
\* inserted its text, with no change made by the environment
C15_Witness ==
    /\ mode = "command"
    /\ pc = "done"
    /\ edits = 0
    /\ Len(requests) = 1
    /\ Len(inserted) = 1
    /\ Len(files) >= 2

\* C16: a read that fails on a resolved note during the synthesis re-read is
\* skipped and does not abort the batch: generateContent still goes on to its
\* one provider call.
C16_SynReadFailureSkipped ==
    (\E i \in 1..Len(synLog) : synLog[i].st = "fail") =>
        /\ ret.kind # "throw"
        /\ SynSettled => Len(requests) = 1

\* C17: the prompt is built from what the store holds at the re-read, not
\* from what the scan read: each position filled by a read holds the text the
\* store held when that read settled, and the prompt sent is assembled from
\* these positions.
C17_PromptUsesRereadContent ==
    /\ \A i \in 1..Len(slots) :
          synLog[i].st = "ok" => slots[i] = Done(synLog[i].c)
    /\ Len(requests) = 1 =>
          requests[1].messages[1].content = <<LeadIn>> \o ExpectedBlock

\* C17 witness: a command sent its request with a note in the prompt that had
\* the tag when the scan read it and no longer had it at the re-read
C17_Witness ==
    /\ mode = "command"
    /\ pc = "calling"
    /\ \E i \in 1..Len(synPaths), j \in 1..Len(locFiles) :
        /\ locFiles[j] = synPaths[i]
        /\ locSaw[j].st = "ok"
        /\ Includes(locSaw[j].c, tag)
        /\ synLog[i].st = "ok"
        /\ ~Includes(synLog[i].c, tag)
        /\ slots[i].c = synLog[i].c

\* the scheduling the host guarantees: an issued read settles, a sent request
\* settles, and a continuation that can run does run
FairSpec ==
    /\ Spec
    /\ WF_vars(LocStep)
    /\ WF_vars(LocReadDone)
    /\ WF_vars(LocReturn)
    /\ WF_vars(ThenCallback)
    /\ WF_vars(CmdAfterLocate)
    /\ WF_vars(SynReadDone)
    /\ WF_vars(SynRequest)
    /\ WF_vars(ProviderRespond)
    /\ WF_vars(CmdAfterSynth)

\* the terminal states of the Synthesizer's state machine: Aborted (the
\* missing-credential sentinel, no request), Success and Failure (a string
\* returned after the one request)
SynAborted == ret = Str(MsgNoKey(variant)) /\ requests = <<>>
SynAnswered == ret.kind = "string" /\ Len(requests) = 1
SynTerminal == SynAborted \/ SynAnswered

\* the order of the positions of an invocation
PcRank(p) ==
    CASE p = "idle"           -> 0
      [] p = "locating"       -> 1
      [] p = "located"        -> 2
      [] p = "reading"        -> 3
      [] p = "calling"        -> 4
      [] p = "synth_returned" -> 5
      [] p = "returned"       -> 5
      [] p = "done"           -> 6

\* C18: every generateContent call terminates: with reads and the request
\* settling eventually, the call reaches one of the terminal states Aborted,
\* Success or Failure, it passes through no position twice, and the next
\* invocation starts with nothing of it.
C18_SynthReachesTerminalState ==
    /\ [](SynEntered => <>(SynTerminal \/ ~SynEntered))
    /\ [](SynSettled => SynTerminal)
    /\ [][pc' # pc => (PcRank(pc') > PcRank(pc) \/ pc' = "idle")]_vars
    /\ [][pc' = "idle" =>
            /\ ret' = NoRet
            /\ requests' = <<>>
            /\ slots' = <<>>
            /\ synPending' = {}
            /\ prompt' = <<>>]_vars

\* C19: in the settings variant the provider is never invoked with an empty
\* API key, in any interleaving of the onChange handler with the command.
C19_RequestKeyNonEmpty ==
    Len(requests) >= 1 => keyUsed # ""

\* the command has derived its folder scope and entered the scan
ScopeDerived == mode = "command" /\ currentFilePath # <<>> /\ tag # <<>>

\* C20: the folder scope is the triggering note's path up to, not including,
\* its last '/', and '' (a vault-wide scan) when the path has no '/'; the
\* triggering note's own path starts with the scope, so once the scan has
\* settled the note is in the result when its read found the tag.
C20_ScopeIsTriggerFolder ==
    ScopeDerived =>
        /\ ("/" \notin Range(currentFilePath)) => folderPath = <<>>
        /\ ("/" \in Range(currentFilePath)) =>
              LET n == Len(folderPath)
              IN  /\ n < Len(currentFilePath)
                  /\ SubSeq(currentFilePath, 1, n) = folderPath
                  /\ currentFilePath[n + 1] = "/"
                  /\ \A k \in (n + 2)..Len(currentFilePath) :
                        currentFilePath[k] # "/"
        /\ StartsWith(currentFilePath, folderPath)
        /\ (handed /\ locPending = {}) =>
              /\ folderPath = <<>> =>
                    \A i \in 1..Len(locFiles) : locReads[i] = 1
              /\ \A i \in 1..Len(locFiles) :
                    locFiles[i] = currentFilePath => locReads[i] = 1
              /\ \A i \in 1..Len(locFiles) :
                    ( /\ locFiles[i] = currentFilePath
                      /\ locSaw[i].st = "ok"
                      /\ Includes(locSaw[i].c, tag) )
                    => currentFilePath \in Range(notes)

\* C20 witness: a command on a note without '/' in its path scanned the whole
\* vault and got the note itself and a note in a folder
C20_Witness ==
    /\ ScopeDerived
    /\ "/" \notin Range(currentFilePath)
    /\ folderPath = <<>>
    /\ handed
    /\ locPending = {}
    /\ currentFilePath \in Range(notes)
    /\ \E k \in 1..Len(notes) : "/" \in Range(notes[k])

====
